---- MODULE Spec2Model ----
(***************************************************************************)
(* Model of the example programs of test-failure-queue:                    *)
(*   examples/projects/python/calculator.py   (Calculator with history)    *)
(*   examples/python-math-utils/math_utils.py (factorial, is_prime, gcd,   *)
(*                                             fibonacci, power)           *)
(* Spec     : any interleaving of method calls on two Calculator objects.  *)
(* MathSpec : calls of the five math functions on bounded inputs.          *)
(***************************************************************************)
EXTENDS Integers, Sequences, FiniteSets, TLC

(***************************************************************************)
(* Bounds and input sets                                                   *)
(***************************************************************************)
\* Largest number of records held by the live calculators together.
MaxRecords == 2

\* The two Calculator objects alive at the same time.
Instances == {1, 2}

\* First and second operands of the arithmetic calls: negative and
\* positive, one and two digits, a zero divisor, and divisors whose
\* quotients have a finite decimal expansion.
OperandsA == {-20, 7}
OperandsB == {-4, 0}

ArithOps == {"add", "subtract", "multiply", "divide"}

\* Arguments of factorial and fibonacci: -MaxNeg..MaxN.
MaxN == 6
MaxNeg == 2

\* Arguments of is_prime: -MaxNeg..MaxPrimeArg.
MaxPrimeArg == 26

\* Arguments of gcd: 0..MaxGcdArg; the loop of gcd is followed while its
\* locals stay within MaxGcdValue.
MaxGcdArg == 8
MaxGcdValue == 40

\* Arguments of power: base in -MaxBase..MaxBase, exponent in
\* -MaxExp..MaxExp.
MaxBase == 3
MaxExp == 3

(***************************************************************************)
(* Python values                                                           *)
(***************************************************************************)
Abs(n) == IF n < 0 THEN -n ELSE n

\* int: the value is num (den = 1).
IntVal(n) ==
    [kind |-> "int", neg |-> n < 0, num |-> Abs(n), den |-> 1,
     exc |-> "", msg |-> "", items |-> <<>>]

\* float: the rational (-1)^neg * num / den; neg is the sign bit, so that
\* -0.0 is neg = TRUE, num = 0.
FloatVal(neg, num, den) ==
    [kind |-> "float", neg |-> neg, num |-> num, den |-> den,
     exc |-> "", msg |-> "", items |-> <<>>]

\* bool: num is 1 for True, 0 for False.
BoolVal(t) ==
    [kind |-> "bool", neg |-> FALSE, num |-> IF t THEN 1 ELSE 0, den |-> 1,
     exc |-> "", msg |-> "", items |-> <<>>]

\* list
ListVal(s) ==
    [kind |-> "list", neg |-> FALSE, num |-> 0, den |-> 1,
     exc |-> "", msg |-> "", items |-> s]

\* None (a call that returns nothing)
NoneVal ==
    [kind |-> "none", neg |-> FALSE, num |-> 0, den |-> 1,
     exc |-> "", msg |-> "", items |-> <<>>]

\* raise exc(msg): the call does not return a value.
Raise(exc, msg) ==
    [kind |-> "raise", neg |-> FALSE, num |-> 0, den |-> 1,
     exc |-> exc, msg |-> msg, items |-> <<>>]

\* The integer held by an int value.
IntOf(v) == IF v.neg THEN -v.num ELSE v.num

\* a / b on ints, b # 0 (true division; the sign bit is the xor of the
\* operands' signs, also for a zero quotient).
TrueDiv(a, b) == FloatVal((a < 0) # (b < 0), Abs(a), Abs(b))

(***************************************************************************)
(* str() of ints and floats, as the f-strings of calculator.py use it      *)
(***************************************************************************)
DigitStr(d) ==
    CASE d = 0 -> "0" [] d = 1 -> "1" [] d = 2 -> "2" [] d = 3 -> "3"
      [] d = 4 -> "4" [] d = 5 -> "5" [] d = 6 -> "6" [] d = 7 -> "7"
      [] d = 8 -> "8" [] d = 9 -> "9"

RECURSIVE NatStr(_)
NatStr(n) == IF n < 10 THEN DigitStr(n)
             ELSE NatStr(n \div 10) \o DigitStr(n % 10)

IntStr(n) == IF n < 0 THEN "-" \o NatStr(-n) ELSE NatStr(n)

\* Decimal digits of r / den, 0 < r < den, by long division (den has no
\* prime factor other than 2 and 5 for the operands used).
RECURSIVE FracDigits(_, _)
FracDigits(r, den) ==
    IF r = 0 THEN ""
    ELSE DigitStr((10 * r) \div den) \o FracDigits((10 * r) % den, den)

FloatStr(v) ==
    (IF v.neg THEN "-" ELSE "")
      \o NatStr(v.num \div v.den) \o "."
      \o (IF v.num % v.den = 0 THEN "0" ELSE FracDigits(v.num % v.den, v.den))

ValStr(v) == IF v.kind = "float" THEN FloatStr(v) ELSE IntStr(IntOf(v))

\* f"{a} <op> {b} = {result}"
Record(a, sym, b, result) ==
    IntStr(a) \o " " \o sym \o " " \o IntStr(b) \o " = " \o ValStr(result)

(***************************************************************************)
(* class Calculator: each method maps the object's history h to the new    *)
(* history and the outcome of the call.                                    *)
(***************************************************************************)
Calculator_init == <<>>

add(h, a, b) ==
    LET result == IntVal(a + b)
    IN  [history |-> Append(h, Record(a, "+", b, result)), ret |-> result]

\* Mutant of subtract: the operands are swapped in the difference.
subtract_swapped(h, a, b) ==
    LET result == IntVal(b - a)
    IN  [history |-> Append(h, Record(a, "-", b, result)), ret |-> result]

subtract(h, a, b) ==
    LET result == IntVal(a - b)
    IN  [history |-> Append(h, Record(a, "-", b, result)), ret |-> result]

multiply(h, a, b) ==
    LET result == IntVal(a * b)
    IN  [history |-> Append(h, Record(a, "*", b, result)), ret |-> result]

\* Mutant of divide: the record is appended before the divisor is tested.
divide_appends_first(h, a, b) ==
    IF b = 0
    THEN [history |-> Append(h, IntStr(a) \o " / " \o IntStr(b)),
          ret |-> Raise("DivisionByZeroError", "Cannot divide by zero")]
    ELSE LET result == TrueDiv(a, b)
         IN  [history |-> Append(h, Record(a, "/", b, result)),
              ret |-> result]

\* Mutant of divide: a zero divisor yields a signed infinity (den = 0).
divide_coerces(h, a, b) ==
    IF b = 0
    THEN [history |-> h, ret |-> FloatVal(a < 0, 1, 0)]
    ELSE LET result == TrueDiv(a, b)
         IN  [history |-> Append(h, Record(a, "/", b, result)),
              ret |-> result]

divide(h, a, b) ==
    IF b = 0
    THEN [history |-> h,
          ret |-> Raise("DivisionByZeroError", "Cannot divide by zero")]
    ELSE LET result == TrueDiv(a, b)
         IN  [history |-> Append(h, Record(a, "/", b, result)),
              ret |-> result]

\* Mutant of clear_history: only the most recent record is dropped.
clear_history_pops(h) ==
    [history |-> IF h = <<>> THEN h ELSE SubSeq(h, 1, Len(h) - 1),
     ret |-> ListVal(<<>>)]

clear_history(h) == [history |-> <<>>, ret |-> ListVal(<<>>)]

\* Mutant of SetHistory: history is an attribute of the class, shared by
\* every object.
SetHistory_shared(hs, self, h) == [j \in DOMAIN hs |-> h]

\* self.history = h : the attribute is bound on the object self.
SetHistory(hs, self, h) == [hs EXCEPT ![self] = h]


(***************************************************************************)
(* math_utils.py                                                           *)
(***************************************************************************)
RECURSIVE factorial(_)
factorial(n) ==
    IF n = 0 THEN IntVal(0)
    ELSE IF n < 0
         THEN Raise("ValueError",
                    "Factorial is not defined for negative numbers")
         ELSE LET r == factorial(n - 1)
              IN  IF r.kind = "raise" THEN r ELSE IntVal(n * IntOf(r))

\* for i in range(i, stop): if n % i == 0: return False; return True
RECURSIVE is_prime_loop(_, _, _)
is_prime_loop(n, i, stop) ==
    IF i >= stop THEN TRUE
    ELSE IF n % i = 0 THEN FALSE
    ELSE is_prime_loop(n, i + 1, stop)

\* Mutant of is_prime: the trial divisors stop one short, range(2, n - 2).
is_prime_short(n) ==
    IF n < 2 THEN BoolVal(FALSE) ELSE BoolVal(is_prime_loop(n, 2, n - 2))

is_prime(n) ==
    IF n < 2 THEN BoolVal(FALSE) ELSE BoolVal(is_prime_loop(n, 2, n - 1))

\* One iteration of the loop of gcd: a, b = b, a + b
gcd_body(a, b) == <<b, a + b>>

RECURSIVE fibonacci(_)
fibonacci(n) ==
    IF n <= 1 THEN IntVal(n)
    ELSE IntVal(IntOf(fibonacci(n - 1)) * IntOf(fibonacci(n - 2)))

\* b to the k, k >= 0, on ints.
RECURSIVE IPow(_, _)
IPow(b, k) == IF k = 0 THEN 1 ELSE b * IPow(b, k - 1)

\* base ** exponent for an int base and an int exponent < 0: a float, or
\* ZeroDivisionError for base 0.
PyPowNeg(base, exponent) ==
    IF base = 0
    THEN Raise("ZeroDivisionError", "0.0 cannot be raised to a negative power")
    ELSE FloatVal(base < 0 /\ (-exponent) % 2 = 1, 1,
                  IPow(Abs(base), -exponent))

\* for _ in range(k): result += base
RECURSIVE power_loop(_, _, _)
power_loop(base, k, result) ==
    IF k = 0 THEN result ELSE power_loop(base, k - 1, result + base)

power(base, exponent) ==
    IF exponent = 0 THEN IntVal(1)
    ELSE IF exponent < 0 THEN PyPowNeg(base, exponent)
    ELSE IntVal(power_loop(base, exponent, 1))

(***************************************************************************)
(* State                                                                   *)
(***************************************************************************)
VARIABLES
    history,    \* history[i]: the history list of Calculator object i
    ret,        \* outcome of the most recent Calculator call
    last,       \* the most recent Calculator call: object, method,
                \* operands, length of the object's history before the
                \* call, and whether it repeats the call before it (same
                \* method, same object)
    successes,  \* successes[i]: arithmetic calls on object i that returned
                \* since its construction or its last clear_history
    mfn,        \* the math function called most recently
    margs,      \* its arguments
    mpc,        \* "idle", "gcd" (inside the loop of gcd) or "done"
    mres,       \* its outcome once mpc = "done"
    ga, gb      \* the locals a and b of gcd

cvars == <<history, ret, last, successes>>
mvars == <<mfn, margs, mpc, mres, ga, gb>>
vars == <<history, ret, last, successes, mfn, margs, mpc, mres, ga, gb>>

TotalRecords == Len(history[1]) + Len(history[2])

Call(i, op, a, b) ==
    [inst |-> i, op |-> op, a |-> a, b |-> b, preLen |-> Len(history[i]),
     repeat |-> (last.inst = i /\ last.op = op)]

Init ==
    /\ history = [i \in Instances |-> Calculator_init]
    /\ ret = NoneVal
    /\ last = [inst |-> 0, op |-> "none", a |-> 0, b |-> 0, preLen |-> 0,
               repeat |-> FALSE]
    /\ successes = [i \in Instances |-> 0]
    /\ mfn = "none"
    /\ margs = <<0, 0>>
    /\ mpc = "idle"
    /\ mres = NoneVal
    /\ ga = 0
    /\ gb = 0

(***************************************************************************)
(* Calls on the Calculator objects                                         *)
(***************************************************************************)
\* An arithmetic call on object i with outcome out.
Arith(i, op, a, b, out) ==
    /\ Len(out.history) > Len(history[i]) => TotalRecords < MaxRecords
    /\ history' = SetHistory(history, i, out.history)
    /\ ret' = out.ret
    /\ last' = Call(i, op, a, b)
    /\ successes' = IF out.ret.kind = "raise" THEN successes
                    ELSE [successes EXCEPT ![i] = @ + 1]
    /\ UNCHANGED mvars

CallAdd(i, a, b) == Arith(i, "add", a, b, add(history[i], a, b))

CallSubtract(i, a, b) ==
    Arith(i, "subtract", a, b, subtract(history[i], a, b))

CallMultiply(i, a, b) ==
    Arith(i, "multiply", a, b, multiply(history[i], a, b))

CallDivide(i, a, b) == Arith(i, "divide", a, b, divide(history[i], a, b))

CallClearHistory(i) ==
    LET out == clear_history(history[i])
    IN  /\ history' = SetHistory(history, i, out.history)
        /\ ret' = out.ret
        /\ last' = Call(i, "clear_history", 0, 0)
        /\ successes' = [successes EXCEPT ![i] = 0]
        /\ UNCHANGED mvars

\* Calculator(): a new object takes the place of object i.
Construct(i) ==
    /\ history' = SetHistory(history, i, Calculator_init)
    /\ ret' = NoneVal
    /\ last' = Call(i, "__init__", 0, 0)
    /\ successes' = [successes EXCEPT ![i] = 0]
    /\ UNCHANGED mvars

Next ==
    \/ \E i \in Instances, a \in OperandsA, b \in OperandsB : CallAdd(i, a, b)
    \/ \E i \in Instances, a \in OperandsA, b \in OperandsB :
           CallSubtract(i, a, b)
    \/ \E i \in Instances, a \in OperandsA, b \in OperandsB :
           CallMultiply(i, a, b)
    \/ \E i \in Instances, a \in OperandsA, b \in OperandsB :
           CallDivide(i, a, b)
    \/ \E i \in Instances : CallClearHistory(i)
    \/ \E i \in Instances : Construct(i)

Spec == Init /\ [][Next]_vars

(***************************************************************************)
(* Calls of the math functions                                             *)
(***************************************************************************)
\* A call that runs to its outcome in one step.
Returns(fn, args, out) ==
    /\ mpc # "gcd"
    /\ mfn' = fn
    /\ margs' = args
    /\ mres' = out
    /\ mpc' = "done"
    /\ UNCHANGED <<ga, gb>>
    /\ UNCHANGED cvars

CallFactorial(n) == Returns("factorial", <<n, 0>>, factorial(n))

CallIsPrime(n) == Returns("is_prime", <<n, 0>>, is_prime(n))

CallFibonacci(n) == Returns("fibonacci", <<n, 0>>, fibonacci(n))

CallPower(base, exponent) ==
    Returns("power", <<base, exponent>>, power(base, exponent))

\* gcd(a, b) is entered.
CallGcd(a, b) ==
    /\ mpc # "gcd"
    /\ mfn' = "gcd"
    /\ margs' = <<a, b>>
    /\ mres' = NoneVal
    /\ mpc' = "gcd"
    /\ ga' = a
    /\ gb' = b
    /\ UNCHANGED cvars

\* while b: a, b = b, a + b
GcdIterate ==
    /\ mpc = "gcd"
    /\ gb # 0
    /\ gcd_body(ga, gb)[2] <= MaxGcdValue
    /\ ga' = gcd_body(ga, gb)[1]
    /\ gb' = gcd_body(ga, gb)[2]
    /\ UNCHANGED <<mfn, margs, mpc, mres>>
    /\ UNCHANGED cvars

\* the loop test fails: return a
GcdReturn ==
    /\ mpc = "gcd"
    /\ gb = 0
    /\ mres' = IntVal(ga)
    /\ mpc' = "done"
    /\ UNCHANGED <<mfn, margs, ga, gb>>
    /\ UNCHANGED cvars

MathNext ==
    \/ \E n \in -MaxNeg..MaxN : CallFactorial(n)
    \/ \E n \in -MaxNeg..MaxPrimeArg : CallIsPrime(n)
    \/ \E n \in -MaxNeg..MaxN : CallFibonacci(n)
    \/ \E base \in -MaxBase..MaxBase, exponent \in -MaxExp..MaxExp :
           CallPower(base, exponent)
    \/ \E a \in 0..MaxGcdArg, b \in 0..MaxGcdArg : CallGcd(a, b)
    \/ GcdIterate
    \/ GcdReturn

MathSpec == Init /\ [][MathNext]_vars

(***************************************************************************)
(* Properties of the Calculator (checked under Spec)                       *)
(***************************************************************************)
\* The step is a call of an arithmetic method that took place on object i.
Returned == ret'.kind # "raise"

\* a <op> b as the specification gives it.
OpResult(op, a, b) ==
    CASE op = "add" -> a + b
      [] op = "subtract" -> a - b
      [] op = "multiply" -> a * b

OpSym(op) ==
    CASE op = "add" -> "+" [] op = "subtract" -> "-" [] op = "multiply" -> "*"

C2_DivideByZeroRaises ==
    [][(last'.op = "divide" /\ last'.b = 0)
           => /\ ret' = Raise("DivisionByZeroError", "Cannot divide by zero")
              /\ ret'.kind \notin {"int", "float"}
              /\ history' = history]_vars

\* C2 witness: a second consecutive zero-division attempt on an object with
\* a non-empty history has failed.
C2_Witness ==
    /\ last.op = "divide"
    /\ last.b = 0
    /\ last.repeat
    /\ last.preLen >= 1
    /\ ret.kind = "raise"

\* C3: add, subtract and multiply return a+b, a-b and a*b, never fail, and
\* leave the history equal to the prior history followed by the one record
\* "{a} <op> {b} = {result}" with the returned value as result.
C3_ArithmeticAppendsRecord ==
    [][last'.op \in {"add", "subtract", "multiply"}
           => LET i == last'.inst
                  a == last'.a
                  b == last'.b
              IN  /\ ret' = IntVal(OpResult(last'.op, a, b))
                  /\ ret'.kind # "raise"
                  /\ history'[i] =
                         history[i] \o
                           <<IntStr(a) \o " " \o OpSym(last'.op) \o " "
                               \o IntStr(b) \o " = " \o IntStr(IntOf(ret'))>>]_vars

\* C3 witness: a subtract with a negative operand has returned on an object
\* whose history already held a record.
C3_Witness ==
    /\ last.op = "subtract"
    /\ last.a < 0
    /\ last.b < 0
    /\ last.preLen >= 1
    /\ Len(history[last.inst]) = last.preLen + 1

\* C4: clear_history leaves the object's history empty whatever its prior
\* length, returns an empty list, also when it directly follows another
\* clear_history on the object; the next arithmetic call that returns on
\* the object after a clear_history leaves exactly one record.
C4_ClearHistoryEmpties ==
    [][/\ last'.op = "clear_history"
           => /\ history'[last'.inst] = <<>>
              /\ ret' = ListVal(<<>>)
       /\ (last.op = "clear_history" /\ last'.inst = last.inst
             /\ last'.op \in ArithOps /\ Returned)
           => Len(history'[last'.inst]) = 1]_vars

\* C4 witness: clear_history was called twice in a row on one object.
C4_Witness ==
    /\ last.op = "clear_history"
    /\ last.repeat
    /\ history[last.inst] = <<>>

\* C10: a call on one object (arithmetic, failing or not, clear_history, or
\* the construction of a new object in its place) leaves the history of the
\* other object unchanged, and a newly constructed object has an empty
\* history whatever the objects before it hold or held.
C10_InstancesIndependent ==
    [][/\ \A j \in Instances :
              j # last'.inst => history'[j] = history[j]
       /\ last'.op = "__init__" => history'[last'.inst] = <<>>]_vars

\* C10 witness: an arithmetic call has returned on object 1 while object 2
\* holds a record of its own.
C10_Witness ==
    /\ last.inst = 1
    /\ last.op \in ArithOps
    /\ ret.kind # "raise"
    /\ history[1] # <<>>
    /\ history[2] # <<>>
    /\ history[1] # history[2]

(***************************************************************************)
(* Properties of the math functions (checked under MathSpec)               *)
(***************************************************************************)
\* The call of fn has returned or raised.
Done(fn) == mfn = fn /\ mpc = "done"

\* The greatest common divisor of a and b, a, b >= 0 (0 for a = b = 0).
GreatestCommonDivisor(a, b) ==
    IF a = 0 /\ b = 0 THEN 0
    ELSE CHOOSE d \in 1..(a + b) :
             /\ a % d = 0 /\ b % d = 0
             /\ \A e \in (d + 1)..(a + b) : ~(a % e = 0 /\ b % e = 0)

\* 1 * 2 * ... * n
RECURSIVE ProductUpTo(_)
ProductUpTo(n) == IF n <= 0 THEN 1 ELSE n * ProductUpTo(n - 1)

\* The nth term of 0, 1, 1, 2, 3, 5, 8, 13, ...
RECURSIVE FibonacciTerm(_)
FibonacciTerm(n) ==
    IF n = 0 THEN 0
    ELSE IF n = 1 THEN 1
    ELSE FibonacciTerm(n - 1) + FibonacciTerm(n - 2)

\* C5: gcd on non-negative a, b: every iteration of the loop replaces
\* (a, b) by (b, a mod b), so that b decreases until it is 0, and the value
\* returned is the greatest common divisor of the arguments.
C5_GcdEuclidean ==
    [][/\ (mpc = "gcd" /\ gb # 0) => (ga' = gb /\ gb' = ga % gb /\ gb' < gb)
       /\ (mpc = "gcd" /\ mpc' = "done")
              => mres' = IntVal(GreatestCommonDivisor(margs[1], margs[2]))]_vars

\* C6: is_prime(n) is False for n < 2 and otherwise True exactly when n has
\* no divisor d with 2 <= d and d * d <= n.
C6_IsPrimeCorrect ==
    Done("is_prime")
        => LET n == margs[1]
           IN  mres = BoolVal(n >= 2 /\ ~\E d \in 2..n :
                                            d * d <= n /\ n % d = 0)

\* C6 witness: is_prime(4) has returned False (the loop ran for the single
\* trial divisor 2).
C6_Witness ==
    /\ Done("is_prime")
    /\ margs[1] = 4
    /\ mres = BoolVal(FALSE)

\* C7: factorial(n) raises for n < 0, returns 1 for n = 0 and the product
\* 1 * 2 * ... * n for n >= 1.
C7_FactorialProduct ==
    Done("factorial")
        => LET n == margs[1]
           IN  /\ n < 0 => mres.kind = "raise"
               /\ n = 0 => mres = IntVal(1)
               /\ n >= 1 => mres = IntVal(ProductUpTo(n))

\* C8: power(base, exponent) returns 1 for exponent 0, the product of
\* exponent factors base for exponent > 0, and 1 / base^(-exponent) for
\* exponent < 0 (base # 0).
C8_PowerCorrect ==
    Done("power")
        => LET base == margs[1]
               exponent == margs[2]
           IN  /\ exponent = 0 => mres = IntVal(1)
               /\ exponent > 0 => mres = IntVal(IPow(base, exponent))
               /\ (exponent < 0 /\ base # 0)
                      => /\ mres.kind = "float"
                         /\ (IF mres.neg THEN -mres.num ELSE mres.num)
                                * IPow(base, -exponent) = mres.den

\* C9: fibonacci(n), n >= 0, is the nth term of 0, 1, 1, 2, 3, 5, 8, 13, ...
C9_FibonacciSequence ==
    (Done("fibonacci") /\ margs[1] >= 0)
        => mres = IntVal(FibonacciTerm(margs[1]))
====
